---- MODULE Spec2Model ----
(***************************************************************************)
(* Batch submission engine of akachiryo/auto-codereview-test.              *)
(*                                                                         *)
(* Modelled scripts:                                                       *)
(*   scripts/create_all_issues_smart.py  ("smart"): batches, per-item      *)
(*       retry loop, failure aggregation, retry rounds;                    *)
(*   scripts/create_task_issues.py       ("task"):  batches and per-item   *)
(*       retry loop (create_test_issues.py is the same code with the      *)
(*       word "task" replaced by "test");                                  *)
(*   scripts/create_issues_fast.py       ("fast"):  create_issues_parallel, *)
(*       one batch submitted to a thread pool;                             *)
(*   scripts/create_issues_batch.py, scripts/create_issues.py and          *)
(*       scripts/setup.py: the request helpers make_rest_request and       *)
(*       make_request.                                                     *)
(*                                                                         *)
(* A work item is represented by its position (1..n) in all_requests; a   *)
(* created issue is represented by the item it was created from.          *)
(* Durations are in tenths of a second (0.5 s = 5).                        *)
(***************************************************************************)
EXTENDS Integers, Sequences, FiniteSets, TLC

(* ---------------- bounds of the model ---------------- *)
MaxItems == 3
MaxBatchSize == 2
MaxItemsA == 25
MaxBatchSizeA == 10
MaxItemsR == 6
MaxRows == 3
MaxItemsE == 2
MaxDepth == 4
MaxCalls == 2
MaxCsvRows == 6
MaxCsvBatchSize == 4

(* ---------------- program constants ---------------- *)
\* create_all_issues_smart.py
REQUEST_DELAY == 5
RETRY_DELAY == 20
MAX_RETRIES == 3
MAX_RETRY_ROUNDS == 2
BATCH_PAUSE == 20
ROUND_PRE_SLEEP == 30
ROUND_POST_SLEEP == 50
PRINT_LIMIT == 5
\* create_task_issues.py
TASK_REQUEST_DELAY == 15
TASK_MAX_RETRIES == 5
TASK_BATCH_PAUSE == 150
TASK_RETRY_AFTER_MARGIN == 100
TASK_DEFAULT_WAIT == 600
TASK_EXCEPTION_DELAY == 300
\* create_issues_fast.py
PARALLEL_WORKERS == 8
\* create_issues_batch.py, create_issues.py, setup.py
REST_MAX_RETRIES == 3
REST_WAIT == 600
RECURSIVE_WAIT == 600

Scripts == {"smart", "task"}

(* ---------------- responses of the remote API ---------------- *)
NoHeader == -1
RetryAfterValues == {5}

\* a response to a request helper: its status code and whether its body
\* contains 'rate limit' (response.text.lower())
RestResponse(s, t) == [status |-> s, rate_limit_text |-> t]
NoRestResponse == [status |-> 0, rate_limit_text |-> FALSE]

RestResponses ==
    {RestResponse(200, FALSE), RestResponse(403, TRUE),
     RestResponse(403, FALSE), RestResponse(422, FALSE),
     RestResponse(500, FALSE)}

Helpers == {"batch", "issues", "setup"}

\* value of response.headers.get('x-ratelimit-remaining', 'unknown') when the
\* header is absent
Unknown == -1

\* status: what the remote side answered; kind "exception": the client got
\* no answer (session.post raised); remaining: header x-ratelimit-remaining
HttpResponse(s, ra) ==
    [kind |-> "http", status |-> s, retry_after |-> ra, remaining |-> Unknown]
RaisedException ==
    [kind |-> "exception", status |-> 0, retry_after |-> NoHeader,
     remaining |-> Unknown]
NoResponse ==
    [kind |-> "none", status |-> 0, retry_after |-> NoHeader,
     remaining |-> Unknown]
\* the remote side created the issue but the answer was lost (timeout=30)
LostReply ==
    [kind |-> "exception", status |-> 201, retry_after |-> NoHeader,
     remaining |-> Unknown]

Responses ==
    {HttpResponse(201, NoHeader), HttpResponse(403, NoHeader),
     HttpResponse(422, NoHeader), HttpResponse(429, NoHeader),
     HttpResponse(500, NoHeader),
     RaisedException}
    \cup {HttpResponse(403, ra) : ra \in RetryAfterValues}

VARIABLES
    script,              \* which script is running
    BATCH_SIZE,          \* module constant BATCH_SIZE of the running script
    all_requests,        \* main: the prepared requests, in input order
    pc,                  \* position of the (single) thread
    phase,               \* "main" (batch loop) or "retry" (retry_failed_issues)
    batch_num,           \* main: loop variable of the batch loop
    total_batches,       \* main: calculate_batches(total_issues, BATCH_SIZE)
    issues_data,         \* create_issues_batch: its argument
    i,                   \* create_issues_batch: enumerate index
    created_issues,      \* create_issues_batch: local result list
    failed_issues,       \* create_issues_batch: local result list
    attempt,             \* create_single_issue: loop variable
    result,              \* create_single_issue: returned value ("issue"/"None")
    all_created_issues,  \* main
    all_failed_issues,   \* main
    retry_created,       \* retry_failed_issues
    remaining_failed,    \* retry_failed_issues
    round_num,           \* retry_failed_issues: loop variable
    batches,             \* history: the batches formed by main, in order
    watched,             \* history: the item whose submissions are counted
    requests,            \* history: create-requests issued for watched
    invocations,         \* history: create_single_issue calls for watched
    inv_requests,        \* history: create-requests of the current call
    backoffs,            \* history: backoff sleeps of the current call
    pauses,              \* history: inter-batch pauses taken by main
    slept,               \* history: time slept since the latest create-request
    last_response,       \* history: response of the latest create-request
    nonretry,            \* history: watched got a non-retryable response
    active,              \* history: items inside a create_single_issue call
    pacer_waits,         \* history: REQUEST_DELAY sleeps of the current batch
    round_results,       \* history: the created list of each retry round
    reported,            \* retry_failed_issues: failed items printed by title
    paced,               \* history: REQUEST_DELAY was slept since the latest request
    remote,              \* remote side: issues it holds for watched
    posted,              \* history: payload (json=issue_data) of the latest request
    exit_code,           \* main: returned value (NoExit while running)
    batch_data,          \* create_issues_parallel: rows (TRUE: title not empty)
    issue_requests,      \* create_issues_parallel: rows to create, in order
    futures,             \* create_issues_parallel: rows submitted, in order
    main_pc,             \* create_issues_parallel: position of the main thread
    future_state,        \* per row: state of its future in the pool
    future_result,       \* per row: value create_single_issue returned
    yielded,             \* rows whose future as_completed has yielded
    parallel_created,    \* create_issues_parallel: its list created_issues
    helper,              \* which request helper is running
    rest_pc,             \* request helper: position
    rest_attempt,        \* request helper: loop variable / recursion depth
    rest_requests,       \* history: requests of the current call of the helper
    rest_waits,          \* history: the sleeps of the current call, in order
    rest_decisions,      \* history: <<status code, decision>> of each response
    rest_response,       \* request helper: the latest response
    rest_rows,           \* caller of the helper: rows of its batch
    rest_row,            \* caller of the helper: rows handled so far
    result_file,         \* main: the result file was written
    link_issues,         \* add_issues_to_project_parallel: number of issues
    link_futures,        \* add_issues_to_project_parallel: issues submitted
    link_pc,             \* add_issues_to_project_parallel: main thread position
    link_state,          \* per issue: position of add_single_issue
    link_loaded,         \* per issue: value of success_count the thread read
    link_returned,       \* per issue: value add_issue_to_project_fast returned
    success_count,       \* add_issues_to_project_parallel: shared counter
    all_rows,            \* get_csv_batch: rows of the CSV file, in file order
    csv_batch_size,      \* BATCH_SIZE of the workflow runs
    csv_batches          \* history: result of get_csv_batch for k = 1, 2, ...

parallel_vars == <<batch_data, issue_requests, futures, main_pc,
                   future_state, future_result, yielded, parallel_created>>

rest_vars == <<helper, rest_pc, rest_attempt, rest_requests, rest_waits,
               rest_decisions, rest_response, rest_rows, rest_row>>

link_vars == <<link_issues, link_futures, link_pc, link_state, link_loaded,
               link_returned, success_count>>

csv_vars == <<all_rows, csv_batch_size, csv_batches>>

engine_vars == <<script, BATCH_SIZE, all_requests, pc, phase, batch_num,
          total_batches, issues_data, i, created_issues, failed_issues,
          attempt, result, all_created_issues, all_failed_issues,
          retry_created, remaining_failed, round_num, batches, requests,
          invocations, inv_requests, backoffs, pauses, last_response,
          nonretry, watched, slept, active, pacer_waits,
          round_results, reported, paced, remote, posted, exit_code,
          result_file>>

vars == <<engine_vars, parallel_vars, rest_vars, link_vars, csv_vars>>

(* ---------------- helpers ---------------- *)
Range(s) == {s[k] : k \in 1..Len(s)}

Min(a, b) == IF a < b THEN a ELSE b

\* Python slice s[lo:hi] for 0 <= lo
Slice(s, lo, hi) == SubSeq(s, lo + 1, Min(hi, Len(s)))

RECURSIVE Concat(_)
Concat(ss) == IF ss = <<>> THEN <<>> ELSE Head(ss) \o Concat(Tail(ss))

calculate_batches_floor(total_count, batch_size) == total_count \div batch_size

\* math.ceil(total_count / batch_size)
calculate_batches(total_count, batch_size) ==
    IF total_count % batch_size = 0
    THEN total_count \div batch_size
    ELSE total_count \div batch_size + 1

attempt_range_off_by_one(s) ==
    IF s = "smart" THEN MAX_RETRIES + 1 ELSE TASK_MAX_RETRIES + 1

\* the bound of "for attempt in range(MAX_RETRIES)"
attempt_range(s) == IF s = "smart" THEN MAX_RETRIES ELSE TASK_MAX_RETRIES

round_range_off_by_one == MAX_RETRY_ROUNDS + 1

\* the bound of "for round_num in range(max_retry_rounds)"
round_range == MAX_RETRY_ROUNDS

extend_front(list, more) == more \o list

\* list.extend
extend(list, more) == list \o more

request_delay(s) == IF s = "smart" THEN REQUEST_DELAY ELSE TASK_REQUEST_DELAY

pacer_wait_always(s, index) == request_delay(s)

\* create_single_issue: "if index > 0: time.sleep(REQUEST_DELAY)" (0: none)
pacer_wait(s, index) == IF index > 0 THEN request_delay(s) ELSE 0

batch_pause_none(s) == 0

\* main: the sleep between two batches
batch_pause(s) == IF s = "smart" THEN BATCH_PAUSE ELSE TASK_BATCH_PAUSE


(* ---------------- Submitter: create_single_issue ---------------- *)
smart_classify_retry_all(r) ==
    IF r.kind = "exception" THEN "retry"
    ELSE IF r.status = 201 THEN "created"
    ELSE "retry"

\* create_all_issues_smart.py: what one loop iteration decides for a response
smart_classify(r) ==
    IF r.kind = "exception" THEN "retry"
    ELSE IF r.status = 201 THEN "created"
    ELSE IF r.status = 403 THEN "retry"
    ELSE IF r.status >= 500 THEN "retry"
    ELSE "break"

\* create_all_issues_smart.py: time.sleep of one loop iteration (0: none)
smart_backoff(r, a) ==
    IF r.kind = "exception"
    THEN IF a < MAX_RETRIES - 1 THEN RETRY_DELAY * (a + 1) ELSE 0
    ELSE IF r.status = 201 THEN 0
    ELSE IF r.status = 403 THEN RETRY_DELAY * (a + 1)
    ELSE IF r.status >= 500 THEN RETRY_DELAY * (a + 1)
    ELSE 0

task_classify_low_remaining(r) ==
    IF r.kind = "exception" THEN "retry"
    ELSE IF r.status = 201 THEN "created"
    ELSE IF r.status = 403 THEN IF r.remaining = 0 THEN "break" ELSE "retry"
    ELSE "break"

\* create_task_issues.py: what one loop iteration decides for a response
task_classify(r) ==
    IF r.kind = "exception" THEN "retry"
    ELSE IF r.status = 201 THEN "created"
    ELSE IF r.status = 403 THEN "retry"
    ELSE "break"

\* create_task_issues.py: time.sleep of one loop iteration (0: none)
task_backoff(r, a) ==
    IF r.kind = "exception"
    THEN IF a < TASK_MAX_RETRIES - 1 THEN TASK_EXCEPTION_DELAY * (a + 1) ELSE 0
    ELSE IF r.status = 201 THEN 0
    ELSE IF r.status = 403
         THEN IF r.retry_after # NoHeader
              THEN r.retry_after * 10 + TASK_RETRY_AFTER_MARGIN
              ELSE TASK_DEFAULT_WAIT
    ELSE 0

Classify(s, r) == IF s = "smart" THEN smart_classify(r) ELSE task_classify(r)
Backoff(s, r, a) == IF s = "smart" THEN smart_backoff(r, a) ELSE task_backoff(r, a)

NoPayload == 0
NoExit == -1

\* the remote side creates an issue when it answers 201, received or not
RemoteCreates(r) == r.status = 201

\* create_all_issues_smart.py main: the value returned after the batch loop
\* (line 737 divides by len(all_created_issues); the ZeroDivisionError is
\* caught by "except Exception" and main returns 1)
smart_exit(created) == IF Len(created) = 0 THEN 1 ELSE 0

\* create_all_issues_smart.py main: the result file is written (line 740)
\* unless line 737 raised before
smart_saved(created) == Len(created) > 0

\* create_task_issues.py main: the value returned after the batch loop
task_exit(created) == 0

\* the item create_issues_batch is working on
CurrentItem == issues_data[i + 1]

(* ---------------- Init ---------------- *)
InitFor(s, n, b, w) ==
    /\ script = s
    /\ watched = w
    /\ BATCH_SIZE = b
    /\ all_requests = [k \in 1..n |-> k]
    /\ pc = "main"
    /\ phase = "main"
    /\ batch_num = 0
    /\ total_batches = calculate_batches(n, b)
    /\ issues_data = <<>>
    /\ i = 0
    /\ created_issues = <<>>
    /\ failed_issues = <<>>
    /\ attempt = 0
    /\ result = "pending"
    /\ all_created_issues = <<>>
    /\ all_failed_issues = <<>>
    /\ retry_created = <<>>
    /\ remaining_failed = <<>>
    /\ round_num = 0
    /\ batches = <<>>
    /\ requests = 0
    /\ invocations = 0
    /\ inv_requests = 0
    /\ backoffs = <<>>
    /\ pauses = 0
    /\ slept = 0
    /\ last_response = NoResponse
    /\ nonretry = FALSE
    /\ active = {}
    /\ pacer_waits = 0
    /\ round_results = <<>>
    /\ reported = <<>>
    /\ paced = FALSE
    /\ remote = 0
    /\ posted = NoPayload
    /\ exit_code = NoExit
    /\ result_file = FALSE

\* create_issues_parallel is not running
ParallelIdle ==
    /\ batch_data = <<>>
    /\ issue_requests = <<>>
    /\ futures = <<>>
    /\ main_pc = "idle"
    /\ future_state = <<>>
    /\ future_result = <<>>
    /\ yielded = {}
    /\ parallel_created = <<>>

\* no request helper is running
RestIdle ==
    /\ helper = "none"
    /\ rest_pc = "idle"
    /\ rest_attempt = 0
    /\ rest_requests = 0
    /\ rest_waits = <<>>
    /\ rest_decisions = {}
    /\ rest_response = NoRestResponse
    /\ rest_rows = 0
    /\ rest_row = 0

\* add_issues_to_project_parallel is not running
LinkIdle ==
    /\ link_issues = 0
    /\ link_futures = <<>>
    /\ link_pc = "idle"
    /\ link_state = <<>>
    /\ link_loaded = <<>>
    /\ link_returned = <<>>
    /\ success_count = 0

\* get_csv_batch is not called
CsvIdle ==
    /\ all_rows = <<>>
    /\ csv_batch_size = 1
    /\ csv_batches = <<>>

Init ==
    \E s \in Scripts, n \in 1..MaxItems, b \in 1..MaxBatchSize :
        \E w \in 1..n : InitFor(s, n, b, w) /\ ParallelIdle /\ RestIdle /\ LinkIdle /\ CsvIdle

(* ---------------- BatchScheduler: main loop ---------------- *)
\* main: one iteration of the batch loop up to the call of create_issues_batch
StartBatch ==
    /\ pc = "main"
    /\ batch_num < total_batches
    /\ LET start_idx == batch_num * BATCH_SIZE
           end_idx == Min(start_idx + BATCH_SIZE, Len(all_requests))
           batch_requests == Slice(all_requests, start_idx, end_idx)
       IN  /\ issues_data' = batch_requests
           /\ batches' = Append(batches, batch_requests)
    /\ i' = 0
    /\ created_issues' = <<>>
    /\ failed_issues' = <<>>
    /\ pc' = "item"
    /\ pacer_waits' = 0
    /\ UNCHANGED <<parallel_vars, rest_vars, link_vars, csv_vars, result_file, paced, remote, posted, exit_code, active, round_results, reported, script, watched, slept, BATCH_SIZE, all_requests, phase, batch_num,
                   total_batches, attempt, result, all_created_issues,
                   all_failed_issues, retry_created, remaining_failed,
                   round_num, requests, invocations, inv_requests, backoffs,
                   pauses, last_response, nonretry>>

Enter_submit ==
    /\ pc = "item"
    /\ i < Len(issues_data)
    /\ invocations' = IF CurrentItem = watched THEN invocations + 1 ELSE invocations
    /\ inv_requests' = 0
    /\ backoffs' = <<>>
    /\ attempt' = 0
    /\ result' = "pending"
    /\ last_response' = NoResponse
    /\ slept' = slept + pacer_wait(script, i)
    /\ pc' = "item"
    /\ i' = i + 1
    /\ active' = active \cup {CurrentItem}
    /\ paced' = (pacer_wait(script, i) > 0)
    /\ pacer_waits' = IF pacer_wait(script, i) > 0 THEN pacer_waits + 1 ELSE pacer_waits
    /\ UNCHANGED <<parallel_vars, rest_vars, link_vars, csv_vars, result_file, remote, posted, exit_code, round_results, reported, script, watched, BATCH_SIZE, all_requests, phase, batch_num,
                   total_batches, issues_data, created_issues,
                   failed_issues, all_created_issues,
                   all_failed_issues, retry_created, remaining_failed,
                   round_num, batches, requests, pauses, nonretry>>

\* create_issues_batch calls create_single_issue for the next item
Enter ==
    /\ pc = "item"
    /\ i < Len(issues_data)
    /\ invocations' = IF CurrentItem = watched THEN invocations + 1 ELSE invocations
    /\ inv_requests' = 0
    /\ backoffs' = <<>>
    /\ attempt' = 0
    /\ result' = "pending"
    /\ last_response' = NoResponse
    /\ slept' = slept + pacer_wait(script, i)
    /\ pc' = "attempt"
    /\ active' = active \cup {CurrentItem}
    /\ paced' = (pacer_wait(script, i) > 0)
    /\ pacer_waits' = IF pacer_wait(script, i) > 0 THEN pacer_waits + 1 ELSE pacer_waits
    /\ UNCHANGED <<parallel_vars, rest_vars, link_vars, csv_vars, result_file, remote, posted, exit_code, round_results, reported, script, watched, BATCH_SIZE, all_requests, phase, batch_num,
                   total_batches, issues_data, i, created_issues,
                   failed_issues, all_created_issues,
                   all_failed_issues, retry_created, remaining_failed,
                   round_num, batches, requests, pauses, nonretry>>

Attempt_raise(r) ==
    /\ pc = "attempt"
    /\ requests' = IF CurrentItem = watched THEN requests + 1 ELSE requests
    /\ inv_requests' = inv_requests + 1
    /\ last_response' = r
    /\ posted' = CurrentItem
    /\ paced' = FALSE
    /\ remote' = IF CurrentItem = watched /\ RemoteCreates(r)
                 THEN remote + 1 ELSE remote
    /\ LET d == Classify(script, r)
           w == Backoff(script, r, attempt)
       IN  /\ backoffs' = IF w > 0 THEN Append(backoffs, w) ELSE backoffs
           /\ slept' = w
           /\ nonretry' = (nonretry \/ (d = "break" /\ CurrentItem = watched))
           /\ IF d = "created"
              THEN /\ result' = "issue"
                   /\ pc' = "returned"
                   /\ attempt' = attempt
              ELSE IF d = "retry" /\ attempt + 1 < attempt_range(script)
              THEN /\ attempt' = attempt + 1
                   /\ pc' = "attempt"
                   /\ result' = result
              ELSE /\ result' = "None"
                   /\ pc' = IF r.kind = "exception" THEN "done" ELSE "returned"
                   /\ attempt' = attempt
    /\ active' = IF pc' = "returned" THEN active \ {CurrentItem} ELSE active
    /\ UNCHANGED <<parallel_vars, rest_vars, link_vars, csv_vars, result_file, exit_code, pacer_waits, round_results, reported, script, watched, BATCH_SIZE, all_requests, phase, batch_num,
                   total_batches, issues_data, i, created_issues,
                   failed_issues, all_created_issues, all_failed_issues,
                   retry_created, remaining_failed, round_num, batches,
                   invocations, pauses>>

Attempt_no_resubmit(r) ==
    /\ pc = "attempt"
    /\ requests' = IF CurrentItem = watched THEN requests + 1 ELSE requests
    /\ inv_requests' = inv_requests + 1
    /\ last_response' = r
    /\ posted' = CurrentItem
    /\ paced' = FALSE
    /\ remote' = IF CurrentItem = watched /\ RemoteCreates(r)
                 THEN remote + 1 ELSE remote
    /\ LET d == Classify(script, r)
           w == Backoff(script, r, attempt)
       IN  /\ backoffs' = IF w > 0 THEN Append(backoffs, w) ELSE backoffs
           /\ slept' = w
           /\ nonretry' = (nonretry \/ (d = "break" /\ CurrentItem = watched))
           /\ IF d = "created"
              THEN /\ result' = "issue"
                   /\ pc' = "returned"
                   /\ attempt' = attempt
              ELSE IF d = "retry" /\ r.kind # "exception"
                      /\ attempt + 1 < attempt_range(script)
              THEN /\ attempt' = attempt + 1
                   /\ pc' = "attempt"
                   /\ result' = result
              ELSE /\ result' = "None"
                   /\ pc' = "returned"
                   /\ attempt' = attempt
    /\ active' = IF pc' = "returned" THEN active \ {CurrentItem} ELSE active
    /\ UNCHANGED <<parallel_vars, rest_vars, link_vars, csv_vars, result_file, exit_code, pacer_waits, round_results, reported, script, watched, BATCH_SIZE, all_requests, phase, batch_num,
                   total_batches, issues_data, i, created_issues,
                   failed_issues, all_created_issues, all_failed_issues,
                   retry_created, remaining_failed, round_num, batches,
                   invocations, pauses>>

\* create_single_issue: one iteration of the retry loop, the remote answering r
Attempt(r) ==
    /\ pc = "attempt"
    /\ requests' = IF CurrentItem = watched THEN requests + 1 ELSE requests
    /\ inv_requests' = inv_requests + 1
    /\ last_response' = r
    /\ posted' = CurrentItem
    /\ paced' = FALSE
    /\ remote' = IF CurrentItem = watched /\ RemoteCreates(r)
                 THEN remote + 1 ELSE remote
    /\ LET d == Classify(script, r)
           w == Backoff(script, r, attempt)
       IN  /\ backoffs' = IF w > 0 THEN Append(backoffs, w) ELSE backoffs
           /\ slept' = w
           /\ nonretry' = (nonretry \/ (d = "break" /\ CurrentItem = watched))
           /\ IF d = "created"
              THEN /\ result' = "issue"
                   /\ pc' = "returned"
                   /\ attempt' = attempt
              ELSE IF d = "retry" /\ attempt + 1 < attempt_range(script)
              THEN /\ attempt' = attempt + 1
                   /\ pc' = "attempt"
                   /\ result' = result
              ELSE /\ result' = "None"
                   /\ pc' = "returned"
                   /\ attempt' = attempt
    /\ active' = IF pc' = "returned" THEN active \ {CurrentItem} ELSE active
    /\ UNCHANGED <<parallel_vars, rest_vars, link_vars, csv_vars, result_file, exit_code, pacer_waits, round_results, reported, script, watched, BATCH_SIZE, all_requests, phase, batch_num,
                   total_batches, issues_data, i, created_issues,
                   failed_issues, all_created_issues, all_failed_issues,
                   retry_created, remaining_failed, round_num, batches,
                   invocations, pauses>>

smart_batch_step_drop ==
    /\ created_issues' = IF result = "issue"
                         THEN Append(created_issues, CurrentItem)
                         ELSE created_issues
    /\ failed_issues' = failed_issues

smart_batch_step_renumber ==
    /\ created_issues' = IF result = "issue"
                         THEN Append(created_issues, CurrentItem)
                         ELSE created_issues
    /\ failed_issues' = IF result = "issue"
                        THEN failed_issues
                        ELSE Append(failed_issues, i + 1)

\* create_all_issues_smart.py create_issues_batch: the loop body after the call
smart_batch_step ==
    /\ created_issues' = IF result = "issue"
                         THEN Append(created_issues, CurrentItem)
                         ELSE created_issues
    /\ failed_issues' = IF result = "issue"
                        THEN failed_issues
                        ELSE Append(failed_issues, CurrentItem)

\* create_task_issues.py create_task_issues_batch: the loop body after the call
task_batch_step ==
    /\ created_issues' = IF result = "issue"
                         THEN Append(created_issues, CurrentItem)
                         ELSE created_issues
    /\ failed_issues' = failed_issues

\* (create_single_issue catches every Exception of the request itself; the
\* except branch of create_issues_batch, lines 166-168, appends to
\* failed_issues exactly as the None branch does)
BatchStep ==
    /\ pc = "returned"
    /\ IF script = "smart" THEN smart_batch_step ELSE task_batch_step
    /\ i' = i + 1
    /\ pc' = "item"
    /\ UNCHANGED <<parallel_vars, rest_vars, link_vars, csv_vars, result_file, paced, remote, posted, exit_code, active, pacer_waits, round_results, reported, script, watched, slept, BATCH_SIZE, all_requests, phase, batch_num,
                   total_batches, issues_data, attempt, result,
                   all_created_issues, all_failed_issues, retry_created,
                   remaining_failed, round_num, batches, requests,
                   invocations, inv_requests, backoffs, pauses,
                   last_response, nonretry>>

MainBatchReturn_always ==
    /\ pc = "item"
    /\ phase = "main"
    /\ i = Len(issues_data)
    /\ all_created_issues' = extend(all_created_issues, created_issues)
    /\ all_failed_issues' = extend(all_failed_issues, failed_issues)
    /\ pauses' = pauses + 1
    /\ slept' = slept + batch_pause(script)
    /\ batch_num' = batch_num + 1
    /\ pc' = "main"
    /\ UNCHANGED <<parallel_vars, rest_vars, link_vars, csv_vars, result_file, paced, remote, posted, exit_code, active, pacer_waits, round_results, reported, script, watched, BATCH_SIZE, all_requests, phase, total_batches,
                   issues_data, i, created_issues, failed_issues, attempt,
                   result, retry_created, remaining_failed, round_num,
                   batches, requests, invocations, inv_requests, backoffs,
                   last_response, nonretry>>

\* main: create_issues_batch returned; rest of the loop iteration
MainBatchReturn ==
    /\ pc = "item"
    /\ phase = "main"
    /\ i = Len(issues_data)
    /\ all_created_issues' = extend(all_created_issues, created_issues)
    /\ all_failed_issues' = extend(all_failed_issues, failed_issues)
    /\ pauses' = IF batch_num < total_batches - 1 THEN pauses + 1 ELSE pauses
    /\ slept' = IF batch_num < total_batches - 1
                THEN slept + batch_pause(script)
                ELSE slept
    /\ batch_num' = batch_num + 1
    /\ pc' = "main"
    /\ UNCHANGED <<parallel_vars, rest_vars, link_vars, csv_vars, result_file, paced, remote, posted, exit_code, active, pacer_waits, round_results, reported, script, watched, BATCH_SIZE, all_requests, phase, total_batches,
                   issues_data, i, created_issues, failed_issues, attempt,
                   result, retry_created, remaining_failed, round_num,
                   batches, requests, invocations, inv_requests, backoffs,
                   last_response, nonretry>>

\* main: after the batch loop
EndMain ==
    /\ pc = "main"
    /\ all_requests # <<>>
    /\ batch_num = total_batches
    /\ IF script = "smart" /\ all_failed_issues # <<>>
       THEN /\ phase' = "retry"
            /\ pc' = "retry"
            /\ retry_created' = <<>>
            /\ remaining_failed' = all_failed_issues
            /\ round_num' = 0
            /\ exit_code' = exit_code
            /\ result_file' = result_file
       ELSE /\ phase' = "done"
            /\ pc' = "done"
            /\ exit_code' = IF script = "smart"
                            THEN smart_exit(all_created_issues)
                            ELSE task_exit(all_created_issues)
            /\ result_file' = IF script = "smart"
                              THEN smart_saved(all_created_issues)
                              ELSE TRUE
            /\ UNCHANGED <<retry_created, remaining_failed, round_num>>
    /\ UNCHANGED <<parallel_vars, rest_vars, link_vars, csv_vars, paced, remote, posted, active, pacer_waits, round_results, reported, script, watched, slept, BATCH_SIZE, all_requests, batch_num,
                   total_batches, issues_data, i, created_issues,
                   failed_issues, attempt, result, all_created_issues,
                   all_failed_issues, batches, requests, invocations,
                   inv_requests, backoffs, pauses, last_response, nonretry>>

(* ---------------- RetryCoordinator: retry_failed_issues ---------------- *)
\* one iteration of the round loop up to the call of create_issues_batch
StartRound_all ==
    /\ pc = "retry"
    /\ round_num < round_range
    /\ remaining_failed # <<>>
    /\ slept' = slept + ROUND_PRE_SLEEP
    /\ issues_data' = all_failed_issues
    /\ i' = 0
    /\ created_issues' = <<>>
    /\ failed_issues' = <<>>
    /\ pc' = "item"
    /\ pacer_waits' = 0
    /\ UNCHANGED <<parallel_vars, rest_vars, link_vars, csv_vars, result_file, paced, remote, posted, exit_code, active, round_results, reported, script, watched, BATCH_SIZE, all_requests, phase, batch_num,
                   total_batches, attempt, result, all_created_issues,
                   all_failed_issues, retry_created, remaining_failed,
                   round_num, batches, requests, invocations, inv_requests,
                   backoffs, pauses, last_response, nonretry>>

(* ---------------- RetryCoordinator: retry_failed_issues ---------------- *)
\* one iteration of the round loop up to the call of create_issues_batch
StartRound ==
    /\ pc = "retry"
    /\ round_num < round_range
    /\ remaining_failed # <<>>
    /\ slept' = slept + ROUND_PRE_SLEEP
    /\ issues_data' = remaining_failed
    /\ i' = 0
    /\ created_issues' = <<>>
    /\ failed_issues' = <<>>
    /\ pc' = "item"
    /\ pacer_waits' = 0
    /\ UNCHANGED <<parallel_vars, rest_vars, link_vars, csv_vars, result_file, paced, remote, posted, exit_code, active, round_results, reported, script, watched, BATCH_SIZE, all_requests, phase, batch_num,
                   total_batches, attempt, result, all_created_issues,
                   all_failed_issues, retry_created, remaining_failed,
                   round_num, batches, requests, invocations, inv_requests,
                   backoffs, pauses, last_response, nonretry>>

RoundBatchReturn_keep ==
    /\ pc = "item"
    /\ phase = "retry"
    /\ i = Len(issues_data)
    /\ retry_created' = extend(retry_created, created_issues)
    /\ remaining_failed' = remaining_failed
    /\ slept' = IF failed_issues # <<>> /\ round_num < round_range - 1
                THEN slept + ROUND_POST_SLEEP
                ELSE slept
    /\ round_num' = round_num + 1
    /\ pc' = "retry"
    /\ round_results' = Append(round_results, created_issues)
    /\ UNCHANGED <<parallel_vars, rest_vars, link_vars, csv_vars, result_file, paced, remote, posted, exit_code, active, pacer_waits, reported, script, watched, BATCH_SIZE, all_requests, phase, batch_num,
                   total_batches, issues_data, i, created_issues,
                   failed_issues, attempt, result, all_created_issues,
                   all_failed_issues, batches, requests, invocations,
                   inv_requests, backoffs, pauses, last_response, nonretry>>

\* create_issues_batch returned; rest of the round
RoundBatchReturn ==
    /\ pc = "item"
    /\ phase = "retry"
    /\ i = Len(issues_data)
    /\ retry_created' = extend(retry_created, created_issues)
    /\ remaining_failed' = failed_issues
    /\ slept' = IF failed_issues # <<>> /\ round_num < round_range - 1
                THEN slept + ROUND_POST_SLEEP
                ELSE slept
    /\ round_num' = round_num + 1
    /\ pc' = "retry"
    /\ round_results' = Append(round_results, created_issues)
    /\ UNCHANGED <<parallel_vars, rest_vars, link_vars, csv_vars, result_file, paced, remote, posted, exit_code, active, pacer_waits, reported, script, watched, BATCH_SIZE, all_requests, phase, batch_num,
                   total_batches, issues_data, i, created_issues,
                   failed_issues, attempt, result, all_created_issues,
                   all_failed_issues, batches, requests, invocations,
                   inv_requests, backoffs, pauses, last_response, nonretry>>

EndRetry_front ==
    /\ pc = "retry"
    /\ round_num = round_range \/ remaining_failed = <<>>
    /\ all_created_issues' = extend(retry_created, all_created_issues)
    /\ exit_code' = smart_exit(all_created_issues')
    /\ result_file' = smart_saved(all_created_issues')
    /\ phase' = "done"
    /\ pc' = "done"
    /\ reported' = SubSeq(remaining_failed, 1, Min(PRINT_LIMIT, Len(remaining_failed)))
    /\ UNCHANGED <<parallel_vars, rest_vars, link_vars, csv_vars, paced, remote, posted, active, pacer_waits, round_results, script, watched, slept, BATCH_SIZE, all_requests, batch_num,
                   total_batches, issues_data, i, created_issues,
                   failed_issues, attempt, result, all_failed_issues,
                   retry_created, remaining_failed, round_num, batches,
                   requests, invocations, inv_requests, backoffs, pauses,
                   last_response, nonretry>>

EndRetry_strict ==
    /\ pc = "retry"
    /\ round_num = round_range \/ remaining_failed = <<>>
    /\ all_created_issues' = extend(all_created_issues, retry_created)
    /\ exit_code' = IF remaining_failed # <<>> THEN 1
                    ELSE smart_exit(all_created_issues')
    /\ result_file' = smart_saved(all_created_issues')
    /\ phase' = "done"
    /\ pc' = "done"
    /\ reported' = SubSeq(remaining_failed, 1, Min(PRINT_LIMIT, Len(remaining_failed)))
    /\ UNCHANGED <<parallel_vars, rest_vars, link_vars, csv_vars, paced, remote, posted, active, pacer_waits, round_results, script, watched, slept, BATCH_SIZE, all_requests, batch_num,
                   total_batches, issues_data, i, created_issues,
                   failed_issues, attempt, result, all_failed_issues,
                   retry_created, remaining_failed, round_num, batches,
                   requests, invocations, inv_requests, backoffs, pauses,
                   last_response, nonretry>>

EndRetry_forget ==
    /\ pc = "retry"
    /\ round_num = round_range \/ remaining_failed = <<>>
    /\ all_created_issues' = all_created_issues
    /\ exit_code' = smart_exit(all_created_issues')
    /\ result_file' = smart_saved(all_created_issues')
    /\ phase' = "done"
    /\ pc' = "done"
    /\ reported' = SubSeq(remaining_failed, 1, Min(PRINT_LIMIT, Len(remaining_failed)))
    /\ UNCHANGED <<parallel_vars, rest_vars, link_vars, csv_vars, paced, remote, posted, active, pacer_waits, round_results, script, watched, slept, BATCH_SIZE, all_requests, batch_num,
                   total_batches, issues_data, i, created_issues,
                   failed_issues, attempt, result, all_failed_issues,
                   retry_created, remaining_failed, round_num, batches,
                   requests, invocations, inv_requests, backoffs, pauses,
                   last_response, nonretry>>

\* the round loop ends; retry_failed_issues returns and main extends its list
EndRetry ==
    /\ pc = "retry"
    /\ round_num = round_range \/ remaining_failed = <<>>
    /\ all_created_issues' = extend(all_created_issues, retry_created)
    /\ exit_code' = smart_exit(all_created_issues')
    /\ result_file' = smart_saved(all_created_issues')
    /\ phase' = "done"
    /\ pc' = "done"
    /\ reported' = SubSeq(remaining_failed, 1, Min(PRINT_LIMIT, Len(remaining_failed)))
    /\ UNCHANGED <<parallel_vars, rest_vars, link_vars, csv_vars, paced, remote, posted, active, pacer_waits, round_results, script, watched, slept, BATCH_SIZE, all_requests, batch_num,
                   total_batches, issues_data, i, created_issues,
                   failed_issues, attempt, result, all_failed_issues,
                   retry_created, remaining_failed, round_num, batches,
                   requests, invocations, inv_requests, backoffs, pauses,
                   last_response, nonretry>>

Next ==
    \/ StartBatch
    \/ Enter
    \/ \E r \in Responses : Attempt(r)
    \/ BatchStep
    \/ MainBatchReturn
    \/ EndMain
    \/ StartRound
    \/ RoundBatchReturn
    \/ EndRetry

Spec == Init /\ [][Next]_vars

(* ---------------- Scenario A: every request answered 201 ---------------- *)
InitA ==
    \E n \in 1..MaxItemsA, b \in 1..MaxBatchSizeA :
        \E w \in {1, n} : InitFor("smart", n, b, w) /\ ParallelIdle /\ RestIdle /\ LinkIdle /\ CsvIdle

NextA ==
    \/ StartBatch
    \/ Enter
    \/ Attempt(HttpResponse(201, NoHeader))
    \/ BatchStep
    \/ MainBatchReturn
    \/ EndMain

SpecA == InitA /\ [][NextA]_vars

(* ---------------- Scenario R: many failures ---------------- *)
\* every request is answered 201 or 422, so every call makes one request
ResponsesR == {HttpResponse(201, NoHeader), HttpResponse(422, NoHeader)}

\* the first batch holds every item, or every item but the last
InitR ==
    \E n \in 1..MaxItemsR, b \in {MaxItemsR - 1, MaxItemsR} :
        \E w \in {1, n} : InitFor("smart", n, b, w) /\ ParallelIdle /\ RestIdle /\ LinkIdle /\ CsvIdle

NextR ==
    \/ StartBatch
    \/ Enter
    \/ \E r \in ResponsesR : Attempt(r)
    \/ BatchStep
    \/ MainBatchReturn
    \/ EndMain
    \/ StartRound
    \/ RoundBatchReturn
    \/ EndRetry

SpecR == InitR /\ [][NextR]_vars

(* ---------------- Scenario E: empty input, lost answers ---------------- *)
\* main: "if total_issues == 0: return 1" (create_all_issues_smart.py) and
\* "if not task_data: return 0" (create_task_issues.py), before any batch
MainEmpty ==
    /\ pc = "main"
    /\ all_requests = <<>>
    /\ exit_code' = IF script = "smart" THEN 1 ELSE 0
    /\ phase' = "done"
    /\ pc' = "done"
    /\ UNCHANGED <<parallel_vars, rest_vars, link_vars, csv_vars, result_file, paced, remote, posted, active, pacer_waits,
                   round_results, reported, script, watched, slept,
                   BATCH_SIZE, all_requests, batch_num, total_batches,
                   issues_data, i, created_issues, failed_issues, attempt,
                   result, all_created_issues, all_failed_issues,
                   retry_created, remaining_failed, round_num, batches,
                   requests, invocations, inv_requests, backoffs, pauses,
                   last_response, nonretry>>

ResponsesE ==
    {HttpResponse(201, NoHeader), HttpResponse(422, NoHeader),
     RaisedException, LostReply}

InitE ==
    \E s \in Scripts, n \in 0..MaxItemsE, b \in 1..MaxBatchSize :
        InitFor(s, n, b, Min(1, n)) /\ ParallelIdle /\ RestIdle /\ LinkIdle /\ CsvIdle

NextE ==
    \/ MainEmpty
    \/ StartBatch
    \/ Enter
    \/ \E r \in ResponsesE : Attempt(r)
    \/ BatchStep
    \/ MainBatchReturn
    \/ EndMain
    \/ StartRound
    \/ RoundBatchReturn
    \/ EndRetry

SpecE == InitE /\ [][NextE]_vars

(* ---------------- Scenario H: rate-limit headers ---------------- *)
\* values of the header x-ratelimit-remaining
RemainingValues == {0, 4999}

\* answers 201 and 403 (with and without retry-after) carrying the header
ResponsesH ==
    {[r EXCEPT !.remaining = v] :
        r \in {HttpResponse(201, NoHeader), HttpResponse(403, NoHeader)}
               \cup {HttpResponse(403, ra) : ra \in RetryAfterValues},
        v \in RemainingValues}

InitH ==
    \E s \in Scripts, n \in 1..MaxItemsE, b \in 1..MaxBatchSize :
        \E w \in 1..n : InitFor(s, n, b, w) /\ ParallelIdle /\ RestIdle /\ LinkIdle /\ CsvIdle

NextH ==
    \/ StartBatch
    \/ Enter
    \/ \E r \in ResponsesH : Attempt(r)
    \/ BatchStep
    \/ MainBatchReturn
    \/ EndMain
    \/ StartRound
    \/ RoundBatchReturn
    \/ EndRetry

SpecH == InitH /\ [][NextH]_vars

(* ---------------- create_issues_fast.py: create_issues_parallel ---------------- *)
\* rows are numbered 1..n (enumerate index + 1); REQUEST_DELAY, the 2 s sleep
\* before the second request and the burst pause only take time

\* the rows create_issues_parallel keeps: those with a non-empty title
RECURSIVE titled_rows(_, _)
titled_rows(data, k) ==
    IF k > Len(data) THEN <<>>
    ELSE IF data[k] THEN <<k>> \o titled_rows(data, k + 1)
    ELSE titled_rows(data, k + 1)

\* create_single_issue: outcome of the first request
fast_first(r) ==
    IF r.kind = "exception" THEN "None"
    ELSE IF r.status = 201 THEN "issue"
    ELSE IF r.status = 403 THEN "second"
    ELSE "None"

\* create_single_issue: outcome of the second request (after a 403)
fast_second(r) ==
    IF r.kind = "exception" THEN "None"
    ELSE IF r.status = 201 THEN "issue"
    ELSE "None"

Running == {k \in Range(futures) : future_state[k] \in {"running", "second"}}

InitFast ==
    /\ InitFor("fast", 0, 1, 0)
    /\ RestIdle /\ LinkIdle /\ CsvIdle
    /\ \E n \in 1..MaxRows : batch_data \in [1..n -> BOOLEAN]
    /\ issue_requests = <<>>
    /\ futures = <<>>
    /\ main_pc = "prepare"
    /\ future_state = [k \in 1..Len(batch_data) |-> "none"]
    /\ future_result = [k \in 1..Len(batch_data) |-> "pending"]
    /\ yielded = {}
    /\ parallel_created = <<>>

\* main thread: the preparation loop and "if not issue_requests: return []"
Prepare ==
    /\ main_pc = "prepare"
    /\ issue_requests' = titled_rows(batch_data, 1)
    /\ main_pc' = IF issue_requests' = <<>> THEN "returned" ELSE "submit"
    /\ UNCHANGED <<engine_vars, rest_vars, link_vars, csv_vars, batch_data, futures, future_state,
                   future_result, yielded, parallel_created>>

\* main thread: executor.submit of the next request, futures.append
Submit ==
    /\ main_pc = "submit"
    /\ LET k == issue_requests[Len(futures) + 1]
       IN  /\ futures' = Append(futures, k)
           /\ future_state' = [future_state EXCEPT ![k] = "queued"]
    /\ main_pc' = IF Len(futures') = Len(issue_requests)
                  THEN "collect" ELSE "submit"
    /\ UNCHANGED <<engine_vars, rest_vars, link_vars, csv_vars, batch_data, issue_requests, future_result,
                   yielded, parallel_created>>

\* a pool thread takes the oldest queued work item
WorkerStart(k) ==
    /\ k \in Range(futures)
    /\ future_state[k] = "queued"
    /\ \A j \in Range(futures) : future_state[j] = "queued" => k <= j
    /\ Cardinality(Running) < PARALLEL_WORKERS
    /\ future_state' = [future_state EXCEPT ![k] = "running"]
    /\ UNCHANGED <<engine_vars, rest_vars, link_vars, csv_vars, batch_data, issue_requests, futures, main_pc,
                   future_result, yielded, parallel_created>>

\* pool thread in create_single_issue: the first request is answered r
WorkerPost(k, r) ==
    /\ k \in Range(futures)
    /\ future_state[k] = "running"
    /\ IF fast_first(r) = "second"
       THEN /\ future_state' = [future_state EXCEPT ![k] = "second"]
            /\ future_result' = future_result
       ELSE /\ future_state' = [future_state EXCEPT ![k] = "done"]
            /\ future_result' = [future_result EXCEPT ![k] = fast_first(r)]
    /\ UNCHANGED <<engine_vars, rest_vars, link_vars, csv_vars, batch_data, issue_requests, futures, main_pc,
                   yielded, parallel_created>>

\* pool thread in create_single_issue: the second request is answered r
WorkerRetry(k, r) ==
    /\ k \in Range(futures)
    /\ future_state[k] = "second"
    /\ future_state' = [future_state EXCEPT ![k] = "done"]
    /\ future_result' = [future_result EXCEPT ![k] = fast_second(r)]
    /\ UNCHANGED <<engine_vars, rest_vars, link_vars, csv_vars, batch_data, issue_requests, futures, main_pc,
                   yielded, parallel_created>>

\* main thread: as_completed yields a finished future; the loop body.
\* (as_completed yields the futures already finished when it is called in the
\* iteration order of a set and the others as they finish: any finished
\* future that was not yielded yet may come next)
Collect(k) ==
    /\ main_pc = "collect"
    /\ k \in Range(futures) \ yielded
    /\ future_state[k] = "done"
    /\ yielded' = yielded \cup {k}
    /\ parallel_created' = IF future_result[k] = "issue"
                           THEN Append(parallel_created, k)
                           ELSE parallel_created
    /\ UNCHANGED <<engine_vars, rest_vars, link_vars, csv_vars, batch_data, issue_requests, futures, main_pc,
                   future_state, future_result>>

\* main thread: as_completed is exhausted; return created_issues
Return ==
    /\ main_pc = "collect"
    /\ yielded = Range(futures)
    /\ main_pc' = "returned"
    /\ UNCHANGED <<engine_vars, rest_vars, link_vars, csv_vars, batch_data, issue_requests, futures,
                   future_state, future_result, yielded, parallel_created>>

NextFast ==
    \/ Prepare
    \/ Submit
    \/ \E k \in 1..Len(batch_data) : WorkerStart(k)
    \/ \E k \in 1..Len(batch_data), r \in Responses : WorkerPost(k, r)
    \/ \E k \in 1..Len(batch_data), r \in Responses : WorkerRetry(k, r)
    \/ \E k \in 1..Len(batch_data) : Collect(k)
    \/ Return

SpecFast == InitFast /\ [][NextFast]_vars

(* ---------------- create_issues_fast.py: add_issues_to_project_parallel ---------------- *)
\* issues are numbered 1..link_issues; "success_count += 1" of a pool thread
\* is a read of the shared variable followed by a write of the value read
\* plus one, and no lock is held

LinkRunning ==
    {k \in Range(link_futures) : link_state[k] \in {"calling", "load", "store"}}

InitLink ==
    /\ InitFor("link", 0, 1, 0)
    /\ ParallelIdle /\ RestIdle /\ CsvIdle
    /\ link_issues \in 1..MaxRows
    /\ link_futures = <<>>
    /\ link_pc = "submit"
    /\ link_state = [k \in 1..link_issues |-> "none"]
    /\ link_loaded = [k \in 1..link_issues |-> 0]
    /\ link_returned = [k \in 1..link_issues |-> "pending"]
    /\ success_count = 0

\* main thread: executor.submit(add_single_issue, ...) for the next issue
LinkSubmit ==
    /\ link_pc = "submit"
    /\ LET k == Len(link_futures) + 1
       IN  /\ link_futures' = Append(link_futures, k)
           /\ link_state' = [link_state EXCEPT ![k] = "queued"]
           /\ link_pc' = IF k = link_issues THEN "wait" ELSE "submit"
    /\ UNCHANGED <<engine_vars, parallel_vars, rest_vars, csv_vars,
                   link_issues, link_loaded, link_returned, success_count>>

\* a pool thread takes the oldest queued work item
LinkStart(k) ==
    /\ k \in Range(link_futures)
    /\ link_state[k] = "queued"
    /\ \A j \in Range(link_futures) : link_state[j] = "queued" => k <= j
    /\ Cardinality(LinkRunning) < PARALLEL_WORKERS
    /\ link_state' = [link_state EXCEPT ![k] = "calling"]
    /\ UNCHANGED <<engine_vars, parallel_vars, rest_vars, csv_vars,
                   link_issues, link_futures, link_pc, link_loaded,
                   link_returned, success_count>>

\* add_single_issue: add_issue_to_project_fast returns ok (an exception is
\* caught and counts as False)
LinkCall(k, ok) ==
    /\ k \in Range(link_futures)
    /\ link_state[k] = "calling"
    /\ link_returned' = [link_returned EXCEPT ![k] = IF ok THEN "True" ELSE "False"]
    /\ link_state' = [link_state EXCEPT ![k] = IF ok THEN "load" ELSE "done"]
    /\ UNCHANGED <<engine_vars, parallel_vars, rest_vars, csv_vars,
                   link_issues, link_futures, link_pc, link_loaded,
                   success_count>>

\* add_single_issue: "success_count += 1", the read
LinkLoad(k) ==
    /\ k \in Range(link_futures)
    /\ link_state[k] = "load"
    /\ link_loaded' = [link_loaded EXCEPT ![k] = success_count]
    /\ link_state' = [link_state EXCEPT ![k] = "store"]
    /\ UNCHANGED <<engine_vars, parallel_vars, rest_vars, csv_vars,
                   link_issues, link_futures, link_pc, link_returned,
                   success_count>>

\* add_single_issue: "success_count += 1", the write; return True
LinkStore(k) ==
    /\ k \in Range(link_futures)
    /\ link_state[k] = "store"
    /\ success_count' = link_loaded[k] + 1
    /\ link_state' = [link_state EXCEPT ![k] = "done"]
    /\ UNCHANGED <<engine_vars, parallel_vars, rest_vars, csv_vars,
                   link_issues, link_futures, link_pc, link_loaded,
                   link_returned>>

\* main thread: the as_completed loop has seen every future; the executor
\* is shut down and the final count is printed
LinkFinish ==
    /\ link_pc = "wait"
    /\ \A k \in Range(link_futures) : link_state[k] = "done"
    /\ link_pc' = "finished"
    /\ UNCHANGED <<engine_vars, parallel_vars, rest_vars, csv_vars,
                   link_issues, link_futures, link_state, link_loaded,
                   link_returned, success_count>>

NextLink ==
    \/ LinkSubmit
    \/ \E k \in 1..link_issues : LinkStart(k)
    \/ \E k \in 1..link_issues, ok \in BOOLEAN : LinkCall(k, ok)
    \/ \E k \in 1..link_issues : LinkLoad(k)
    \/ \E k \in 1..link_issues : LinkStore(k)
    \/ LinkFinish

SpecLink == InitLink /\ [][NextLink]_vars

(* ---------------- get_csv_batch ---------------- *)
get_csv_batch_zero_based(rows, batch_number, batch_size) ==
    LET start_index == batch_number * batch_size
        end_index == start_index + batch_size
    IN  Slice(rows, start_index, end_index)

\* create_issues_batch.py / create_issues_fast.py get_csv_batch, the file
\* existing and readable: all_rows[start_index:end_index]
get_csv_batch(rows, batch_number, batch_size) ==
    LET start_index == (batch_number - 1) * batch_size
        end_index == start_index + batch_size
    IN  Slice(rows, start_index, end_index)

\* a CSV file of n rows, row j represented by j, and the BATCH_SIZE of the runs
InitCsv ==
    /\ InitFor("csv", 0, 1, 0)
    /\ ParallelIdle /\ RestIdle /\ LinkIdle
    /\ \E n \in 0..MaxCsvRows : all_rows = [j \in 1..n |-> j]
    /\ csv_batch_size \in 1..MaxCsvBatchSize
    /\ csv_batches = <<>>

\* the run with BATCH_NUMBER = Len(csv_batches) + 1 calls get_csv_batch
csv_run ==
    /\ Len(csv_batches) <= MaxCsvRows
    /\ csv_batches' =
           Append(csv_batches,
                  get_csv_batch(all_rows, Len(csv_batches) + 1, csv_batch_size))
    /\ UNCHANGED <<engine_vars, parallel_vars, rest_vars, link_vars,
                   all_rows, csv_batch_size>>

NextCsv == csv_run

SpecCsv == InitCsv /\ [][NextCsv]_vars

(* ---------------- request helpers ---------------- *)
\* create_issues_batch.py make_rest_request: the branch one iteration takes
batch_decision(r) ==
    IF r.status = 403
    THEN IF r.rate_limit_text THEN "retry" ELSE "abort"
    ELSE IF r.status = 422 THEN "abort"
    ELSE "return"

\* create_issues.py make_rest_request, setup.py make_request: the branch taken
recursive_decision(r) ==
    IF r.status = 403 /\ r.rate_limit_text THEN "retry" ELSE "return"

InitRest ==
    /\ InitFor("rest", 0, 1, 0)
    /\ ParallelIdle /\ LinkIdle /\ CsvIdle
    /\ helper \in Helpers
    /\ rest_pc = "request"
    /\ rest_attempt = 0
    /\ rest_requests = 0
    /\ rest_waits = <<>>
    /\ rest_decisions = {}
    /\ rest_response = NoRestResponse
    /\ rest_rows \in 1..MaxCalls
    /\ rest_row = 0

\* create_issues_batch.py make_rest_request: one iteration of
\* "for attempt in range(max_retries)", the remote answering r
batch_request(r) ==
    /\ helper = "batch"
    /\ rest_pc = "request"
    /\ rest_requests' = rest_requests + 1
    /\ rest_response' = r
    /\ rest_decisions' = rest_decisions \cup {<<r.status, batch_decision(r)>>}
    /\ IF batch_decision(r) = "retry"
       THEN /\ rest_waits' = Append(rest_waits, REST_WAIT * (rest_attempt + 1))
            /\ rest_attempt' = rest_attempt + 1
            /\ rest_pc' = IF rest_attempt + 1 < REST_MAX_RETRIES
                          THEN "request" ELSE "returned"
       ELSE /\ rest_pc' = "returned"
            /\ UNCHANGED <<rest_waits, rest_attempt>>
    /\ UNCHANGED <<engine_vars, parallel_vars, link_vars, csv_vars, helper, rest_rows, rest_row>>

\* create_issues.py make_rest_request, setup.py make_request: one activation,
\* the remote answering r. The function calls itself after a rate-limit
\* answer; MaxDepth stands for the interpreter's recursion limit, at which
\* the call raises RecursionError.
recursive_request(r) ==
    /\ helper \in {"issues", "setup"}
    /\ rest_pc = "request"
    /\ rest_requests' = rest_requests + 1
    /\ rest_response' = r
    /\ rest_decisions' =
           rest_decisions \cup {<<r.status, recursive_decision(r)>>}
    /\ IF recursive_decision(r) = "retry"
       THEN /\ rest_waits' = Append(rest_waits, RECURSIVE_WAIT)
            /\ rest_attempt' = rest_attempt + 1
            /\ rest_pc' = IF rest_attempt + 1 < MaxDepth
                          THEN "request" ELSE "raised"
       ELSE /\ rest_pc' = "returned"
            /\ UNCHANGED <<rest_waits, rest_attempt>>
    /\ UNCHANGED <<engine_vars, parallel_vars, link_vars, csv_vars, helper, rest_rows, rest_row>>

\* the caller (create_issues_from_batch and its like) handles the returned
\* response and calls the helper for its next row
next_row ==
    /\ rest_pc = "returned"
    /\ rest_row + 1 < rest_rows
    /\ rest_row' = rest_row + 1
    /\ rest_pc' = "request"
    /\ rest_attempt' = 0
    /\ rest_requests' = 0
    /\ rest_waits' = <<>>
    /\ UNCHANGED <<engine_vars, parallel_vars, link_vars, csv_vars, helper, rest_rows,
                   rest_decisions, rest_response>>

NextRest ==
    \/ next_row
    \/ \E r \in RestResponses : batch_request(r)
    \/ \E r \in RestResponses : recursive_request(r)

SpecRest == InitRest /\ [][NextRest]_vars

\* every request ends (answer or error) and every sleep is timed
FairSpecRest == SpecRest /\ WF_vars(NextRest)

(* ---------------- the run under its scheduling ---------------- *)
\* one thread, every request with timeout=30, every sleep timed: a step that
\* can be taken is taken
FairSpec == Spec /\ WF_vars(Next)


(* ================= properties ================= *)
IsSet(s) == Cardinality(Range(s)) = Len(s)

NonDecreasing(s) == \A j, k \in 1..Len(s) : j < k => s[j] <= s[k]

MaxRetriesOf(s) == IF s = "smart" THEN MAX_RETRIES ELSE TASK_MAX_RETRIES

IsHttp(r, st) == r.kind = "http" /\ r.status = st

\* a status that is not 201, not 403 and not >= 500
NonRetryable(r) ==
    r.kind = "http" /\ r.status # 201 /\ r.status # 403 /\ r.status < 500

\* C1: while create_issues_batch (create_all_issues_smart.py) runs, and when
\* it returns, the items it has handled so far are partitioned by its two
\* lists: each handled item is in exactly one of created_issues and
\* failed_issues, so on return |created| + |failed| = |batch|.
C1_Partition ==
    (script = "smart" /\ pc = "item") =>
        LET handled == {issues_data[k] : k \in 1..i}
        IN  /\ Len(created_issues) + Len(failed_issues) = i
            /\ IsSet(created_issues) /\ IsSet(failed_issues)
            /\ Range(created_issues) \cap Range(failed_issues) = {}
            /\ Range(created_issues) \cup Range(failed_issues) = handled

C1_Witness ==
    /\ script = "smart" /\ pc = "item"
    /\ Len(issues_data) = 2 /\ i = 2
    /\ Len(created_issues) = 1 /\ Len(failed_issues) = 1
    /\ last_response = RaisedException

\* C2: one call of create_single_issue issues at most MAX_RETRIES
\* create-requests (3 in create_all_issues_smart.py, 5 in
\* create_task_issues.py), whatever the responses; an attempt that raised
\* an exception is one of them.
C2_RetryBound ==
    /\ inv_requests <= MaxRetriesOf(script)
    /\ pc = "attempt" => inv_requests = attempt /\ attempt < MaxRetriesOf(script)
    /\ (pc = "attempt" /\ last_response = RaisedException) => inv_requests >= 1

C2_Witness ==
    /\ pc = "returned"
    /\ inv_requests = MaxRetriesOf(script)
    /\ last_response = RaisedException
    /\ result = "None"

\* C3: retry_failed_issues runs at most max_retry_rounds rounds and hands a
\* still-failed item to the Submitter once per round: an item is submitted
\* at most 1 + max_retry_rounds times and gets at most
\* MAX_RETRIES * (1 + max_retry_rounds) requests; an item that fails every
\* attempt with a retryable failure has got exactly that many requests at
\* the end, is not created and is in the final remaining_failed.
C3_RoundBound ==
    script = "smart" =>
        /\ round_num <= MAX_RETRY_ROUNDS
        /\ invocations <= 1 + MAX_RETRY_ROUNDS
        /\ requests <= MAX_RETRIES * (1 + MAX_RETRY_ROUNDS)
        /\ (pc = "retry" /\ watched \in Range(remaining_failed)) =>
               invocations = 1 + round_num
        /\ (pc = "done" /\ ~nonretry /\ watched \notin Range(all_created_issues)) =>
               /\ requests = MAX_RETRIES * (1 + MAX_RETRY_ROUNDS)
               /\ watched \in Range(remaining_failed)

C3_Witness ==
    /\ script = "smart" /\ pc = "done"
    /\ Len(all_requests) = 3
    /\ all_created_issues = <<>>
    /\ remaining_failed = <<1, 2, 3>>
    /\ ~nonretry
    /\ requests = 9

\* C4: an item that received a non-retryable response (e.g. 422) gets no
\* further create-request, in its own retry loop or in a later retry round.
C4_NonRetryableNeverResubmitted ==
    [][nonretry => requests' = requests]_vars

\* C5: a non-retryable response (not 201, not 403, not >= 500) ends the
\* retry loop at once: the call returns a failure, no backoff sleep follows
\* the response, and when it answers the first attempt the call has issued
\* exactly one create-request and slept no backoff at all.
C5_ClientErrorAborts ==
    NonRetryable(last_response) =>
        /\ pc # "attempt"
        /\ pc = "returned" =>
              /\ result = "None"
              /\ slept = 0
              /\ inv_requests = attempt + 1
              /\ Len(backoffs) = attempt
              /\ attempt = 0 => (inv_requests = 1 /\ backoffs = <<>>)

C5_Witness ==
    /\ pc = "returned"
    /\ IsHttp(last_response, 422)
    /\ attempt = 0
    /\ inv_requests = 1
    /\ backoffs = <<>>
    /\ result = "None"

\* C6: after a 403 that carries retry-after: s, the Submitter sleeps at
\* least s seconds before it goes on.
C6_RetryAfterHonoured ==
    (last_response.kind = "http" /\ last_response.status = 403
        /\ last_response.retry_after # NoHeader
        /\ pc \in {"attempt", "returned"}) =>
            slept >= last_response.retry_after * 10

\* C7: a response with status >= 500 is retried: while fewer than
\* MAX_RETRIES attempts have been made, the Submitter sleeps and goes on to
\* another attempt for the same item.
C7_ServerErrorRetried ==
    (last_response.kind = "http" /\ last_response.status >= 500
        /\ pc \in {"attempt", "returned"}
        /\ inv_requests < MaxRetriesOf(script)) =>
            pc = "attempt" /\ slept > 0

\* C8: at the end of a run of create_all_issues_smart.py every prepared
\* item is in all_created_issues exactly once or in the last
\* remaining_failed exactly once, never in both and never in neither; an
\* item of the last remaining_failed has been through its in-place
\* attempts of the main pass and of all max_retry_rounds rounds.
C8_TerminalOnce ==
    (script = "smart" /\ pc = "done") =>
        /\ IsSet(all_created_issues) /\ IsSet(remaining_failed)
        /\ Range(all_created_issues) \cap Range(remaining_failed) = {}
        /\ Range(all_created_issues) \cup Range(remaining_failed) = Range(all_requests)
        /\ remaining_failed # <<>> => round_num = MAX_RETRY_ROUNDS
        /\ watched \in Range(remaining_failed) =>
              /\ invocations = 1 + MAX_RETRY_ROUNDS
              /\ requests >= 1 + MAX_RETRY_ROUNDS
              /\ ~nonretry => requests = MAX_RETRIES * (1 + MAX_RETRY_ROUNDS)

C8_Witness ==
    /\ script = "smart" /\ pc = "done"
    /\ Len(all_requests) = 3
    /\ Len(all_created_issues) = 2
    /\ Len(retry_created) = 1
    /\ remaining_failed = <<watched>>

\* C9: for n >= 1 requests and batch size b >= 1 the main loop forms
\* ceil(n/b) batches; batch k (0-based) is the slice [k*b, min((k+1)*b, n))
\* of the input; the batches are non-empty and disjoint and their
\* concatenation in batch order is the input (25 items, b = 10: 10, 10, 5).
C9_Batches ==
    LET n == Len(all_requests)
        b == BATCH_SIZE
    IN  /\ total_batches * b >= n /\ (total_batches - 1) * b < n
        /\ Len(batches) <= total_batches
        /\ \A k \in 1..Len(batches) :
              /\ Len(batches[k]) = Min(b, n - (k - 1) * b)
              /\ Len(batches[k]) >= 1
              /\ \A j \in 1..Len(batches[k]) :
                    batches[k][j] = all_requests[(k - 1) * b + j]
        /\ \A k, l \in 1..Len(batches) :
              k # l => Range(batches[k]) \cap Range(batches[l]) = {}
        /\ pc = "done" =>
              /\ Len(batches) = total_batches
              /\ Concat(batches) = all_requests
        /\ (pc = "done" /\ n = 25 /\ b = 10) =>
              <<Len(batches[1]), Len(batches[2]), Len(batches[3])>> = <<10, 10, 5>>

C9_Witness ==
    /\ pc = "done"
    /\ Len(all_requests) = 25 /\ BATCH_SIZE = 10
    /\ Len(batches) = 3
    /\ Len(batches[3]) = 5
    /\ Len(all_created_issues) = 25

\* C10: all_failed_issues lists the failed items in input order (batch 1's
\* failures before batch 2's, batch order within a batch), and
\* remaining_failed keeps that order after every retry round.
C10_FailureOrder ==
    /\ NonDecreasing(failed_issues)
    /\ NonDecreasing(all_failed_issues)
    /\ NonDecreasing(remaining_failed)
    /\ Range(remaining_failed) \subseteq Range(all_failed_issues)

C10_Witness ==
    /\ pc = "retry" /\ round_num = 1
    /\ Len(batches) = 2
    /\ all_failed_issues = <<1, 2, 3>>
    /\ remaining_failed = <<1, 3>>


RequestDelayOf(s) == IF s = "smart" THEN REQUEST_DELAY ELSE TASK_REQUEST_DELAY

\* C11: submission is strictly sequential: at most one item is inside a
\* create_single_issue call (so at most one create-request is in flight),
\* the call for the next item starts only after the previous one returned,
\* and a batch starts only after every item of the previous batch was
\* handled.
C11_Sequential ==
    /\ Cardinality(active) <= 1
    /\ pc = "attempt" => active = {CurrentItem}
    /\ pc # "attempt" => active = {}
    /\ pc \in {"main", "retry", "done"} => i = Len(issues_data)

C11_Witness ==
    /\ phase = "retry" /\ pc = "attempt"
    /\ i = 1 /\ active = {issues_data[2]}
    /\ attempt = 1

\* C12: the list create_issues_parallel returns holds the created issues in
\* the order of their rows in the input batch, whatever the interleaving of
\* the pool threads.
C12_ParallelInputOrder ==
    main_pc = "returned" => NonDecreasing(parallel_created)

\* C13: all_created_issues lists the main-pass creations in input order,
\* then the creations of retry round 1 in failure-list order, then those of
\* round 2; an item created in a retry round comes after every main-pass
\* creation, and without failures the list is in input order.
C13_CreatedOrder ==
    script = "smart" =>
        /\ NonDecreasing(created_issues)
        /\ retry_created = Concat(round_results)
        /\ \A k \in 1..Len(round_results) : NonDecreasing(round_results[k])
        /\ phase = "main" =>
              /\ NonDecreasing(all_created_issues)
              /\ Range(all_created_issues) \cap Range(all_failed_issues) = {}
        /\ pc = "done" =>
              LET m == Len(all_created_issues) - Len(retry_created)
              IN  /\ m >= 0
                  /\ NonDecreasing(SubSeq(all_created_issues, 1, m))
                  /\ Range(SubSeq(all_created_issues, 1, m))
                        \cap Range(all_failed_issues) = {}
                  /\ SubSeq(all_created_issues, m + 1, Len(all_created_issues))
                        = retry_created
                  /\ Range(retry_created) \subseteq Range(all_failed_issues)
        /\ (pc = "done" /\ all_failed_issues = <<>>) =>
              NonDecreasing(all_created_issues)

C13_Witness ==
    /\ script = "smart" /\ pc = "done"
    /\ all_created_issues = <<2, 3, 1>>
    /\ round_results = << <<3>>, <<1>> >>

\* C14: failures never abort a batch or the run: the run never stops before
\* its end, after the batch loop every batch was formed and every item was
\* submitted, every item that failed is in all_failed_issues, and at the end
\* every item of all_failed_issues has been submitted again by
\* retry_failed_issues.
C14_NoAbort ==
    /\ pc # "done" => ENABLED Next
    /\ phase # "main" =>
          /\ Len(batches) = total_batches
          /\ Concat(batches) = all_requests
          /\ invocations >= 1
    /\ (script = "smart" /\ phase # "main") =>
          Range(all_requests) \subseteq
              Range(all_created_issues) \cup Range(all_failed_issues)
    /\ (script = "smart" /\ pc = "done" /\ watched \in Range(all_failed_issues)) =>
          invocations >= 2

C14_Witness ==
    /\ script = "smart" /\ pc = "done"
    /\ Len(batches) = 3
    /\ all_failed_issues = <<1, 2, 3>>
    /\ watched = 3 /\ invocations = 3
    /\ last_response = RaisedException

\* C15: no script loses a failed item: at the end of a run every prepared
\* item is in the created collection or in a failure collection.
C15_NoSilentLoss ==
    pc = "done" =>
        Range(all_requests) \subseteq
            Range(all_created_issues) \cup Range(all_failed_issues)

\* C16: when retry_failed_issues ends, what it yields is the concatenation of
\* the created lists of all its rounds, and every item still failed after the
\* last round is reported by its title.
C16_TerminalReport ==
    (script = "smart" /\ pc = "done" /\ all_failed_issues # <<>>) =>
        /\ retry_created = Concat(round_results)
        /\ Range(reported) = Range(remaining_failed)

\* C17: retry_failed_issues terminates; a round starts only while
\* remaining_failed is non-empty and fewer than max_retry_rounds rounds have
\* run, and works on exactly the items that failed in the previous round;
\* the inter-round pause is slept only when items remain and another round
\* follows; with no failure there is no round, no sleep and no request.
C17_RetryStateMachine ==
    /\ [](phase = "retry" => all_failed_issues # <<>>)
    /\ [][(pc = "retry" /\ pc' = "item") =>
            /\ remaining_failed # <<>>
            /\ round_num < MAX_RETRY_ROUNDS
            /\ issues_data' = remaining_failed]_vars
    /\ [][(phase = "retry" /\ pc = "item" /\ pc' = "retry") =>
            /\ remaining_failed' = failed_issues
            /\ round_num' = round_num + 1
            /\ slept' - slept =
                  IF failed_issues # <<>> /\ round_num + 1 < MAX_RETRY_ROUNDS
                  THEN ROUND_POST_SLEEP ELSE 0]_vars
    /\ [][(pc = "main" /\ batch_num = total_batches /\ all_failed_issues = <<>>) =>
            /\ pc' = "done"
            /\ round_num' = 0 /\ round_results' = <<>>
            /\ slept' = slept /\ requests' = requests]_vars
    /\ (phase = "retry") ~> (pc = "done")

C17_Witness ==
    /\ pc = "done"
    /\ round_num = MAX_RETRY_ROUNDS
    /\ Len(round_results) = 2
    /\ Len(all_failed_issues) = 3
    /\ Len(remaining_failed) = 1

\* C18: main sleeps the batch pause after every batch except the last: a
\* run with k batches takes exactly k - 1 pauses, and when the batch size is
\* at least the number of items there is one batch and no pause.
C18_BatchPause ==
    /\ (phase = "main" /\ pc = "main") =>
          pauses = Min(batch_num, total_batches - 1)
    /\ (phase = "main" /\ pc # "main") => pauses = batch_num
    /\ phase # "main" => pauses = total_batches - 1
    /\ BATCH_SIZE >= Len(all_requests) => (total_batches = 1 /\ pauses = 0)

C18_Witness ==
    /\ pc = "done"
    /\ total_batches = 3
    /\ Len(batches) = 3
    /\ pauses = 2

\* C19: between two consecutive create-requests (same item or not, same
\* batch or not, main pass or retry round) the process has slept at least
\* REQUEST_DELAY.
C19_MinSpacing ==
    (pc = "attempt"
        /\ ~(phase = "main" /\ batch_num = 0 /\ i = 0 /\ attempt = 0)) =>
            slept >= RequestDelayOf(script)

C19_Witness ==
    /\ pc = "attempt" /\ phase = "main"
    /\ batch_num = 1 /\ i = 0 /\ attempt = 0
    /\ last_response = NoResponse
    /\ slept = BATCH_PAUSE

\* C20: in every batch and every retry round the base delay is slept once
\* before each item except the first one (index 0) of the batch.
C20_PacerPerBatch ==
    /\ pc = "item" => pacer_waits = (IF i = 0 THEN 0 ELSE i - 1)
    /\ pc \in {"attempt", "returned"} => pacer_waits = i
    /\ (pc = "attempt" /\ attempt = 0 /\ i > 0) => slept >= RequestDelayOf(script)

C20_Witness ==
    /\ phase = "retry" /\ pc = "attempt"
    /\ i = 1 /\ attempt = 0
    /\ pacer_waits = 1

\* C21: the REQUEST_DELAY sleep of the Pacer precedes every attempt of every
\* item; the only attempt issued without it is the first attempt of the first
\* item of the first batch.
C21_PacerPerAttempt ==
    (pc = "attempt"
        /\ ~(phase = "main" /\ batch_num = 0 /\ i = 0 /\ attempt = 0)) =>
            paced

\* the waits task_backoff computes from a retry-after header
RetryAfterWaits ==
    {task_backoff(HttpResponse(403, ra), 0) : ra \in RetryAfterValues}

\* C22: within one call of create_single_issue in which no wait came from a
\* retry-after header, the backoff sleeps form a non-decreasing sequence,
\* whatever mix of 403, 5xx and exceptions the attempts met.
C22_BackoffMonotone ==
    (script = "smart" \/ Range(backoffs) \cap RetryAfterWaits = {}) =>
        NonDecreasing(backoffs)

RECURSIVE Pow2(_)
Pow2(a) == IF a = 0 THEN 1 ELSE 2 * Pow2(a - 1)

BaseRetryDelay(s) == IF s = "smart" THEN RETRY_DELAY ELSE TASK_DEFAULT_WAIT

\* C23: the sleep between a 403 without retry-after at attempt a and the
\* next attempt is the base retry delay times 2^a.
C23_ExponentialBackoff ==
    (pc = "attempt" /\ attempt > 0
        /\ IsHttp(last_response, 403)
        /\ last_response.retry_after = NoHeader) =>
            slept = BaseRetryDelay(script) * Pow2(attempt - 1)

\* C24: when the remote side created the issue and the client saw an
\* exception instead of the answer, the remote holds one more issue for the
\* item and, while attempts remain, create_single_issue posts the same item
\* again: issues accumulate on the remote side.
C24_AtLeastOnce ==
    [][(inv_requests' = inv_requests + 1 /\ last_response' = LostReply) =>
           /\ CurrentItem = watched => remote' = remote + 1
           /\ attempt + 1 < attempt_range(script) =>
                  /\ pc' = "attempt"
                  /\ attempt' = attempt + 1
                  /\ issues_data' = issues_data
                  /\ i' = i]_vars

C24_Witness ==
    /\ remote = 2
    /\ posted = watched
    /\ last_response = HttpResponse(201, NoHeader)
    /\ inv_requests = 2

\* C25: a run over an empty item list forms no batch, issues no request,
\* creates nothing and ends with exit status 0.
C25_EmptyInput ==
    (all_requests = <<>> /\ pc = "done") =>
        /\ batches = <<>>
        /\ posted = NoPayload
        /\ all_created_issues = <<>>
        /\ exit_code = 0

\* C26: main of create_all_issues_smart.py returns 0 whenever at least one
\* issue was created, also when items are still failed after the last round.
C26_PartialSuccess ==
    (script = "smart" /\ pc = "done" /\ all_created_issues # <<>>) =>
        exit_code = 0

C26_Witness ==
    /\ script = "smart" /\ pc = "done"
    /\ all_created_issues # <<>>
    /\ round_num = MAX_RETRY_ROUNDS
    /\ remaining_failed # <<>>
    /\ exit_code = 0

\* C27: every request helper returns after finitely many requests, for every
\* sequence of answers.
C27_HelpersReturn ==
    <>(rest_pc = "returned")

\* C30: within one call the decision taken for a response is a function of
\* its status code (no header is consulted): no status code was decided in
\* two different ways.
C30_DeterministicClassification ==
    \A p, q \in rest_decisions : p[1] = q[1] => p[2] = q[2]

\* C28: the payload of an item is the one prepared before the first batch:
\* all_requests is never modified, every batch, failure list and retry round
\* holds payloads taken unchanged from it, and every request of a call posts
\* the payload of the item the call is for.
C28_ImmutablePayload ==
    /\ all_requests = [k \in 1..Len(all_requests) |-> k]
    /\ Range(issues_data) \subseteq Range(all_requests)
    /\ Range(failed_issues) \subseteq Range(issues_data)
    /\ Range(all_failed_issues) \subseteq Range(all_requests)
    /\ Range(remaining_failed) \subseteq Range(all_failed_issues)
    /\ (phase = "retry" /\ pc \in {"item", "attempt", "returned"}) =>
           Range(issues_data) \subseteq Range(all_failed_issues)
    /\ (pc \in {"attempt", "returned"} /\ inv_requests > 0) =>
           posted = CurrentItem

C28_Witness ==
    /\ phase = "retry" /\ round_num = 1
    /\ pc = "attempt" /\ attempt = 1
    /\ i = 0 /\ CurrentItem = 2
    /\ posted = 2

\* C29: the step taken on an answer does not depend on its
\* x-ratelimit-remaining header: with any other value of the header the
\* decision, the sleep and the resulting position are the same, and a 201 is
\* a creation whatever the remaining capacity.
C29_RemainingAdvisory ==
    [][(inv_requests' = inv_requests + 1 /\ last_response'.kind = "http") =>
           \A v \in RemainingValues \cup {Unknown} :
               LET r2 == [last_response' EXCEPT !.remaining = v]
                   d == Classify(script, r2)
               IN  /\ slept' = Backoff(script, r2, attempt)
                   /\ d = "created" => (result' = "issue" /\ pc' = "returned")
                   /\ (d = "retry" /\ attempt + 1 < attempt_range(script)) =>
                          (pc' = "attempt" /\ attempt' = attempt + 1)
                   /\ (d = "retry" /\ attempt + 1 >= attempt_range(script)) =>
                          (result' = "None" /\ pc' = "returned")
                   /\ d # "break"]_vars

C29_Witness ==
    /\ script = "task"
    /\ pc = "attempt" /\ attempt = 1
    /\ last_response.status = 403
    /\ last_response.remaining = 0
    /\ slept = TASK_DEFAULT_WAIT

\* C31: at the end of a run of create_all_issues_smart.py the created count
\* plus final_failed = len(all_failed_issues) - len(retry_created) is the
\* number of prepared requests; final_failed is not negative and is the
\* length of the last remaining_failed.
C31_CountConservation ==
    (script = "smart" /\ pc = "done") =>
        LET final_failed == Len(all_failed_issues) - Len(retry_created)
        IN  /\ Len(all_created_issues) + final_failed = Len(all_requests)
            /\ final_failed >= 0
            /\ final_failed = Len(remaining_failed)

C31_Witness ==
    /\ script = "smart" /\ pc = "done"
    /\ Len(all_requests) = 3
    /\ Len(all_failed_issues) = 2
    /\ Len(retry_created) = 1
    /\ Len(remaining_failed) = 1

\* C32: when no answer is lost, the remote side holds at most one issue per
\* item over the whole run, and once it holds one no further request is
\* issued for that item.
C32_NoDuplicates ==
    /\ [](remote <= 1)
    /\ [][remote = 1 => requests' = requests]_vars

C32_Witness ==
    /\ pc = "done"
    /\ remote = 1
    /\ requests >= 3
    /\ Len(round_results) = 2
    /\ watched \in Range(round_results[1])

\* C33: for every non-empty input main of create_all_issues_smart.py writes
\* its result file and returns 0, whatever the submissions gave.
C33_ResultPersisted ==
    (script = "smart" /\ pc = "done" /\ all_requests # <<>>) =>
        (result_file /\ exit_code = 0)

\* C35: a call of create_single_issue sleeps a backoff only when another
\* attempt follows: when it has returned, its backoff sleeps are fewer
\* than its requests.
C35_NoBackoffAfterLast ==
    pc = "returned" => Len(backoffs) < inv_requests

\* C34: when add_issues_to_project_parallel has finished, success_count is
\* the number of issues for which add_issue_to_project_fast returned True.
C34_NoLostUpdate ==
    link_pc = "finished" =>
        success_count =
            Cardinality({k \in 1..link_issues : link_returned[k] = "True"})

\* C36: for a file of n rows and batch size b, get_csv_batch for batch k
\* returns rows (k-1)*b .. min(k*b, n)-1 in file order; the batches are
\* pairwise disjoint, those for k = 1..ceil(n/b) concatenate to the whole
\* file, and every later batch is empty.
C36_CsvBatches ==
    LET n == Len(all_rows)
        b == csv_batch_size
        total == calculate_batches(n, b)
    IN  /\ \A k \in 1..Len(csv_batches) :
               LET lo == Min((k - 1) * b, n)
                   hi == Min(k * b, n)
               IN  /\ Len(csv_batches[k]) = hi - lo
                   /\ \A j \in 1..(hi - lo) :
                          csv_batches[k][j] = all_rows[lo + j]
        /\ \A k1, k2 \in 1..Len(csv_batches) :
               k1 < k2 => Range(csv_batches[k1]) \cap Range(csv_batches[k2]) = {}
        /\ Len(csv_batches) >= total =>
               Concat(SubSeq(csv_batches, 1, total)) = all_rows
        /\ \A k \in 1..Len(csv_batches) : k > total => csv_batches[k] = <<>>

C36_Witness ==
    /\ Len(all_rows) = 5
    /\ csv_batch_size = 2
    /\ csv_batches = << <<1, 2>>, <<3, 4>>, <<5>>, <<>> >>

====
